---------------------------- MODULE Spec2Model ----------------------------
(***************************************************************************)
(* A model of the color_watermark crate: the QIM-DM quantizer (qim.rs),    *)
(* the 8x8 block grid and the 2D DCT (dct.rs), the 3-bit recoding of the   *)
(* payload (color_recode.rs) and the embed / extract pipeline (lib.rs).    *)
(*                                                                         *)
(* Numbers.  An f32 is modelled as an exact fixed-point number: the        *)
(* integer n stands for n / Scale.  Every f32 the model handles is a       *)
(* multiple of 1/Scale far below 2^24, so the f32 operations the code      *)
(* performs on it (+, -, %, the casts) are exact and the model computes    *)
(* them exactly.  Comparisons against step/2 and step/10 are made by       *)
(* cross-multiplication, which is exact for every step.                    *)
(***************************************************************************)
EXTENDS Integers, Sequences, FiniteSets, TLC

VARIABLES
    pc,            \* position of the operation under way
    host,          \* the decoded host image: [width, height, pattern]
    wm,            \* the decoded watermark image: [width, height, channels, bytes]
    y_plane,       \* luma plane, a sequence of u8 (lib.rs:32)
    y_blocks,      \* the 8x8 blocks, each a sequence of 64 f32 (lib.rs:35)
    orig_blocks,   \* the blocks as they were before the operation under way
    wm_bits,       \* the payload bit stream (lib.rs:45) or one bit group
    key,           \* the u64 seed
    step_size,     \* the f32 step
    dithers,       \* the dither pairs (lib.rs:48)
    n_embedded,    \* how many qim::embed calls have returned
    extracted_wm,  \* the extracted bit stream (lib.rs:93)
    image_out,     \* the image an operation returned, or None
    rounded,       \* the last direct call of round_to_step_size
    dither_log,    \* every call of generate_dither_signal so far
    embedded_blocks \* the blocks (1-based) qim::embed has been run on

vars == <<pc, host, wm, y_plane, y_blocks, orig_blocks, wm_bits, key, step_size,
          dithers, n_embedded, extracted_wm, image_out, rounded, dither_log,
          embedded_blocks>>

None == [none |-> TRUE]

-----------------------------------------------------------------------------
(* f32 arithmetic *)

\* the f32 value 1.0 in model units
Scale == 16

F32(n) == n * Scale

AbsInt(n) == IF n < 0 THEN -n ELSE n

MinInt(a, b) == IF a < b THEN a ELSE b

MaxInt(a, b) == IF a > b THEN a ELSE b

\* `x as u32` of an f32: truncates toward zero and saturates; a negative
\* value gives 0.  (The values of the model stay far below 2^32, where the
\* cast saturates upward.)
AsU32(x) == IF x < 0 THEN 0 ELSE x \div Scale

\* a faulty variant of `as u8`: the integer part modulo 256
AsU8Wrap(x) == (x \div Scale) % 256

\* `x as u8` of an f32: truncates toward zero and saturates to 0..255
AsU8(x) == IF x < 0 THEN 0 ELSE MinInt(x \div Scale, 255)

\* `a % b` of two f32: the remainder has the sign of the dividend
F32Rem(a, b) == IF a >= 0 THEN a % AbsInt(b) ELSE -((-a) % AbsInt(b))

-----------------------------------------------------------------------------
(* qim.rs *)

\* a faulty variant of in_range: index 3 taken for a mask index too
in_range_from_3(i) == (i >= 3 /\ i <= 7) \/ (i >= 11 /\ i <= 15) \/ (i >= 18 /\ i <= 20)

\* qim.rs:21-24
in_range(i) == (i >= 4 /\ i <= 7) \/ (i >= 11 /\ i <= 15) \/ (i >= 18 /\ i <= 20)

\* qim.rs:26-32.  Both casts are to u32; the product is an f32 again.
round_to_step_size(num, step) ==
    IF 2 * F32Rem(num, step) > step
        THEN (AsU32(num) \div AsU32(step) + 1) * step
        ELSE (AsU32(num) \div AsU32(step)) * step

\* the slot j that embed and extract have reached at position i (0-based):
\* j counts the in_range positions before i (qim.rs:40-49, 62-80)
SlotOf(i) == Cardinality({m \in 0..(i - 1) : in_range(m)})

\* rand_chacha's ChaCha8Rng is outside the repository.  The model keeps what
\* the code relies on: seed_from_u64 fixes the whole state of a generator
\* local to the call (qim.rs:9), and every gen_range call advances it.
RngModulus == 65537

\* a faulty variant of seed_from_u64: the generator is not rebuilt from the seed
\* alone, it carries on from the calls made before
seed_from_u64_shared(seed) == (seed * 31 + 7 + Len(dither_log)) % RngModulus

seed_from_u64(seed) == (seed * 31 + 7) % RngModulus

RngAdvance(state) == (state * 75 + 74) % RngModulus

\* rng.gen_range(-half..half), qim.rs:12: a value of [-half, half) read off
\* the advanced state
GenRange(state, step) == (RngAdvance(state) % step) - (step \div 2)

\* the state of the generator after n draws
RECURSIVE RngAfter(_, _)
RngAfter(state, n) == IF n = 0 THEN state ELSE RngAdvance(RngAfter(state, n - 1))

\* qim.rs:13-17
DitherPair(tmp, half) == IF tmp > 0 THEN <<tmp, tmp - half>> ELSE <<tmp, tmp + half>>

\* qim.rs:8-19
generate_dither_signal(length, step, seed) ==
    LET rng == seed_from_u64(seed)
        half == step \div 2
    IN  [k \in 1..length |-> DitherPair(GenRange(RngAfter(rng, k - 1), step), half)]

\* qim.rs:34-52.  host[i + 1] is host_signal[i].  Indexing watermark or
\* dither_signal past its end panics in the middle of the loop, with the
\* slots before it already written; assert!(j == 12) panics at the end.
embed_watermark(host_signal, watermark, dither_signal, step) ==
    LET n == SlotOf(Len(host_signal))
        limit == MinInt(Len(watermark), Len(dither_signal))
        done == MinInt(n, limit)
        signal == [p \in 1..Len(host_signal) |->
                     LET i == p - 1
                         j == SlotOf(i)
                     IN  IF in_range(i) /\ j < done
                            THEN LET d == IF watermark[j + 1]
                                             THEN dither_signal[j + 1][2]
                                             ELSE dither_signal[j + 1][1]
                                 IN  round_to_step_size(host_signal[p] + d, step) - d
                            ELSE host_signal[p]]
    IN  [ok |-> n <= limit /\ n = 12, signal |-> signal]

\* qim.rs:54-84
extract_watermark(watermarked_signal, dither_signal, step) ==
    LET n == SlotOf(Len(watermarked_signal))
        done == MinInt(n, Len(dither_signal))
        Position(j) == CHOOSE i \in 0..(Len(watermarked_signal) - 1) :
                           in_range(i) /\ SlotOf(i) = j
        ret == [k \in 1..done |->
                  LET tmp == watermarked_signal[Position(k - 1) + 1] + dither_signal[k][1]
                  IN  ~(10 * AbsInt(round_to_step_size(tmp, step) - tmp) < step)]
    IN  [ok |-> n <= Len(dither_signal) /\ n = 12, bits |-> ret]

-----------------------------------------------------------------------------
(* inputs *)

\* step sizes: 10.0, 10.5, 16.0 and 100.0 (lib.rs:272 runs 10, 20, 50, 100)
Steps == {F32(10), F32(21) \div 2, F32(16), F32(100)}

MaxKey == 2

Keys == 0..MaxKey

\* DCT coefficients a block can hold: negative, zero, fractional, large
CoefTable == <<F32(-601) \div 4, F32(-3), 0, F32(15) \div 2, F32(42), F32(205), F32(4003) \div 4>>

MaxBlockPattern == 2

BlockOf(p) ==
    [i \in 1..64 |-> CoefTable[((i * (p + 1) + p) % Len(CoefTable)) + 1]]

\* bit groups: the bits of the numbers below, least significant first,
\* repeated past bit 12
GroupNumbers == {0, 4095, 1365, 2730, 819, 2017}

GroupLengths == {11, 12, 13}

BitsOf(n, len) == [k \in 1..len |-> ((n \div (2 ^ ((k - 1) % 12))) % 2) = 1]

\* the positions (1-based) of the 12 mask coefficients of a 64-element block
MaskPositions == {p \in 1..64 : in_range(p - 1)}

-----------------------------------------------------------------------------
(* the QIM codec on one block: qim.rs called as lib.rs:206-219 calls it *)

Idle ==
    /\ host = None
    /\ wm = None
    /\ y_plane = <<>>
    /\ y_blocks = <<>>
    /\ orig_blocks = <<>>
    /\ wm_bits = <<>>
    /\ key = 0
    /\ step_size = F32(100)
    /\ dithers = <<>>
    /\ n_embedded = 0
    /\ extracted_wm = <<>>
    /\ image_out = None
    /\ rounded = None
    /\ dither_log = <<>>
    /\ embedded_blocks = {}

LogDither(length, step, seed, out) ==
    Append(dither_log, [length |-> length, step |-> step, seed |-> seed, out |-> out])

QimInit ==
    /\ pc = "qim_start"
    /\ host = None
    /\ wm = None
    /\ y_plane = <<>>
    /\ \E p \in 0..MaxBlockPattern :
          /\ y_blocks = <<BlockOf(p)>>
          /\ orig_blocks = <<BlockOf(p)>>
    /\ \E n \in GroupNumbers, len \in GroupLengths : wm_bits = BitsOf(n, len)
    /\ key \in Keys
    /\ step_size \in Steps
    /\ dithers = <<>>
    /\ n_embedded = 0
    /\ extracted_wm = <<>>
    /\ image_out = None
    /\ rounded = None
    /\ dither_log = <<>>
    /\ embedded_blocks = {}

\* lib.rs:207
QimDither ==
    /\ pc = "qim_start"
    /\ dithers' = generate_dither_signal(12, step_size, key)
    /\ dither_log' = LogDither(12, step_size, key, dithers')
    /\ pc' = "qim_dithered"
    /\ UNCHANGED <<host, wm, y_plane, y_blocks, orig_blocks, wm_bits, key, step_size,
                   n_embedded, extracted_wm, image_out, rounded,
                   embedded_blocks>>

\* lib.rs:209, one call of qim::embed on the block
QimEmbed ==
    /\ pc = "qim_dithered"
    /\ LET r == embed_watermark(y_blocks[1], wm_bits, dithers, step_size)
       IN  /\ y_blocks' = <<r.signal>>
           /\ n_embedded' = IF r.ok THEN n_embedded + 1 ELSE n_embedded
           /\ embedded_blocks' = IF r.ok THEN {1} ELSE embedded_blocks
           /\ pc' = IF r.ok THEN "qim_embedded" ELSE "panicked"
    /\ UNCHANGED <<host, wm, y_plane, orig_blocks, wm_bits, key, step_size, dithers,
                   extracted_wm, image_out, rounded, dither_log>>

\* noise on the embedded coefficients: every mask coefficient moves by mag,
\* up or down as the bits of signs say, with mag < step/10
QimDistort ==
    /\ pc = "qim_embedded"
    /\ \E mag \in {1, Scale \div 4, (step_size - 1) \div 10}, signs \in GroupNumbers :
          /\ 10 * mag < step_size
          /\ y_blocks' = <<[p \in 1..64 |->
                              IF p \in MaskPositions
                                 THEN y_blocks[1][p] +
                                      (IF BitsOf(signs, 12)[SlotOf(p - 1) + 1] THEN mag ELSE -mag)
                                 ELSE y_blocks[1][p]]>>
    /\ pc' = "qim_noisy"
    /\ UNCHANGED <<host, wm, y_plane, orig_blocks, wm_bits, key, step_size, dithers,
                   n_embedded, extracted_wm, image_out, rounded, dither_log,
                   embedded_blocks>>

\* lib.rs:214-219, one call of qim::extract on the block: right after embed,
\* after noise, or on a block nothing was embedded into
QimExtract ==
    /\ pc \in {"qim_dithered", "qim_embedded", "qim_noisy"}
    /\ LET r == extract_watermark(y_blocks[1], dithers, step_size)
       IN  /\ extracted_wm' = r.bits
           /\ pc' = IF ~r.ok THEN "panicked"
                     ELSE IF pc = "qim_dithered" THEN "qim_probed"
                     ELSE IF pc = "qim_embedded" THEN "qim_extracted"
                     ELSE "qim_extracted_noisy"
    /\ UNCHANGED <<host, wm, y_plane, y_blocks, orig_blocks, wm_bits, key, step_size,
                   dithers, n_embedded, image_out, rounded, dither_log,
                   embedded_blocks>>

QimNext == QimDither \/ QimEmbed \/ QimDistort \/ QimExtract

SpecQim == QimInit /\ [][QimNext]_vars

-----------------------------------------------------------------------------
(* round_to_step_size called on its own *)

MaxNum == 60

\* the values handed to round_to_step_size: every multiple of 0.5 up to
\* MaxNum/2 either side of zero, and the coefficients of CoefTable
Nums == {F32(n) \div 2 : n \in -MaxNum..MaxNum} \cup {CoefTable[i] : i \in 1..Len(CoefTable)}

RoundInit ==
    /\ pc = "round"
    /\ host = None
    /\ wm = None
    /\ y_plane = <<>>
    /\ y_blocks = <<>>
    /\ orig_blocks = <<>>
    /\ wm_bits = <<>>
    /\ key = 0
    /\ step_size \in Steps
    /\ dithers = <<>>
    /\ n_embedded = 0
    /\ extracted_wm = <<>>
    /\ image_out = None
    /\ rounded = None
    /\ dither_log = <<>>
    /\ embedded_blocks = {}

RoundCall ==
    /\ pc = "round"
    /\ \E num \in Nums :
          rounded' = [num |-> num, step |-> step_size,
                      out |-> round_to_step_size(num, step_size)]
    /\ UNCHANGED <<pc, host, wm, y_plane, y_blocks, orig_blocks, wm_bits, key,
                   step_size, dithers, n_embedded, extracted_wm, image_out, dither_log,
                   embedded_blocks>>

RoundNext == RoundCall

SpecRound == RoundInit /\ [][RoundNext]_vars

-----------------------------------------------------------------------------
(* color_recode.rs *)

\* image.as_bytes(): the pixel buffer in storage order, channels interleaved
\* (channels is the number of bytes of one pixel)
Image(width, height, channels, bytes) ==
    [width |-> width, height |-> height, channels |-> channels, bytes |-> bytes]

\* DynamicImage::new_rgb8, color_recode.rs:21: every byte 0
new_rgb8(width, height) ==
    Image(width, height, 3, [i \in 1..(width * height * 3) |-> 0])

\* a faulty variant of recode_to_3bits: the threshold is off by one
recode_to_3bits_ge127(image) ==
    [i \in 1..Len(image.bytes) |-> image.bytes[i] >= 127]

\* color_recode.rs:5-17
recode_to_3bits(image) ==
    [i \in 1..Len(image.bytes) |-> image.bytes[i] > 127]

\* image.put_pixel(x, y, Rgba([r, g, b, 255])) on an RGB8 image: stores the
\* three colour bytes of pixel (x, y); outside the image it panics
put_pixel(st, b) ==
    IF st.x >= st.image.width \/ st.y >= st.image.height
       THEN [st EXCEPT !.ok = FALSE]
       ELSE LET at == (st.y * st.image.width + st.x) * 3
            IN  [st EXCEPT !.image.bytes =
                     [i \in 1..Len(st.image.bytes) |->
                        IF i = at + 1 THEN st.r
                        ELSE IF i = at + 2 THEN st.g
                        ELSE IF i = at + 3 THEN b
                        ELSE st.image.bytes[i]]]

\* color_recode.rs:34-38 and 49-53: write the pixel, then move on
EmitPixel(st, b) ==
    LET put == put_pixel(st, b)
    IN  IF ~put.ok
           THEN put
           ELSE [put EXCEPT !.y = st.y + (IF st.x + 1 = st.image.width THEN 1 ELSE 0),
                            !.x = (st.x + 1) % st.image.width]

\* color_recode.rs:26-57: one turn of the loop, on bit i (0-based)
RecodeStep(st, i, bit) ==
    LET v == IF bit THEN 255 ELSE 0
    IN  IF i % 3 = 0 THEN [st EXCEPT !.r = v]
        ELSE IF i % 3 = 1 THEN [st EXCEPT !.g = v]
        ELSE EmitPixel(st, v)

RECURSIVE RecodeLoop(_, _, _)
RecodeLoop(bits, i, st) ==
    IF i = Len(bits) \/ ~st.ok
       THEN st
       ELSE RecodeLoop(bits, i + 1, RecodeStep(st, i, bits[i + 1]))

\* color_recode.rs:20-62: [ok, image]; ok is FALSE when put_pixel panicked
recode_to_rgb(bits, width, height) ==
    LET st == RecodeLoop(bits, 0,
                  [image |-> new_rgb8(width, height), x |-> 0, y |-> 0,
                   r |-> 0, g |-> 0, ok |-> TRUE])
    IN  [ok |-> st.ok, image |-> st.image]

-----------------------------------------------------------------------------
(* the recoding on its own: lib.rs:114-128 and lib.rs:102 *)

MaxImgSide == 3

\* bytes per pixel of the decoded image: L8, LA8, RGB8, RGBA8
Channels == 1..4

ByteTable == <<0, 127, 128, 255, 200, 13, 64>>

MaxBytePattern == 2

ImageBytes(n, p) ==
    [i \in 1..n |-> ByteTable[((i * (p + 1) + p) % Len(ByteTable)) + 1]]

RecodeInit ==
    /\ pc = "recode_start"
    /\ host = None
    /\ \E w \in 1..MaxImgSide, h \in 1..MaxImgSide, c \in Channels, p \in 0..MaxBytePattern :
          wm = Image(w, h, c, ImageBytes(w * h * c, p))
    /\ y_plane = <<>>
    /\ y_blocks = <<>>
    /\ orig_blocks = <<>>
    /\ wm_bits = <<>>
    /\ key = 0
    /\ step_size = F32(100)
    /\ dithers = <<>>
    /\ n_embedded = 0
    /\ extracted_wm = <<>>
    /\ image_out = None
    /\ rounded = None
    /\ dither_log = <<>>
    /\ embedded_blocks = {}

\* lib.rs:119, the inner call
RecodeTo3Bits ==
    /\ pc = "recode_start"
    /\ wm_bits' = recode_to_3bits(wm)
    /\ pc' = "recode_bits"
    /\ UNCHANGED <<host, wm, y_plane, y_blocks, orig_blocks, key, step_size, dithers,
                   n_embedded, extracted_wm, image_out, rounded, dither_log,
                   embedded_blocks>>

\* lib.rs:119, the outer call: the bits of the image, with its dimensions
RoundTripRgb ==
    /\ pc = "recode_bits"
    /\ LET r == recode_to_rgb(wm_bits, wm.width, wm.height)
       IN  /\ image_out' = IF r.ok THEN r.image ELSE None
           /\ pc' = IF r.ok THEN "round_trip_done" ELSE "round_trip_panicked"
    /\ UNCHANGED <<host, wm, y_plane, y_blocks, orig_blocks, wm_bits, key, step_size,
                   dithers, n_embedded, extracted_wm, rounded, dither_log,
                   embedded_blocks>>

\* lib.rs:102: the bits with dimensions the caller fixes
RecodeToRgb ==
    /\ pc = "recode_bits"
    /\ \E w \in 1..MaxImgSide, h \in 1..MaxImgSide :
          LET r == recode_to_rgb(wm_bits, w, h)
          IN  /\ image_out' = IF r.ok THEN r.image ELSE None
              /\ pc' = IF r.ok THEN "rgb_done" ELSE "rgb_panicked"
    /\ UNCHANGED <<host, wm, y_plane, y_blocks, orig_blocks, wm_bits, key, step_size,
                   dithers, n_embedded, extracted_wm, rounded, dither_log,
                   embedded_blocks>>

RecodeNext == RecodeTo3Bits \/ RoundTripRgb \/ RecodeToRgb

SpecRecode == RecodeInit /\ [][RecodeNext]_vars

-----------------------------------------------------------------------------
(* generate_dither_signal called again and again: lib.rs:48 and lib.rs:92 *)

MaxCalls == 2

DitherInit ==
    /\ pc = "dither"
    /\ host = None
    /\ wm = None
    /\ y_plane = <<>>
    /\ y_blocks = <<>>
    /\ orig_blocks = <<>>
    /\ wm_bits = <<>>
    /\ key = 0
    /\ step_size = F32(100)
    /\ dithers = <<>>
    /\ n_embedded = 0
    /\ extracted_wm = <<>>
    /\ image_out = None
    /\ rounded = None
    /\ dither_log = <<>>
    /\ embedded_blocks = {}

\* one call, with any step and any seed
DitherCall ==
    /\ pc = "dither"
    /\ Len(dither_log) < MaxCalls
    /\ \E step \in Steps, seed \in Keys :
          /\ key' = seed
          /\ step_size' = step
          /\ dithers' = generate_dither_signal(12, step, seed)
          /\ dither_log' = LogDither(12, step, seed, dithers')
    /\ UNCHANGED <<pc, host, wm, y_plane, y_blocks, orig_blocks, wm_bits, n_embedded,
                   extracted_wm, image_out, rounded,
                   embedded_blocks>>

DitherNext == DitherCall

SpecDither == DitherInit /\ [][DitherNext]_vars

-----------------------------------------------------------------------------
(* dct.rs *)

\* dct.rs:5
BLK_WIDTH == 8

RECURSIVE SeqSum(_)
SeqSum(s) == IF s = <<>> THEN 0 ELSE Head(s) + SeqSum(Tail(s))

\* v / d rounded to the nearest integer
RoundDiv(v, d) == (2 * v + d) \div (2 * d)

\* the sequence s, of length n, with every element computed once
Stored(s, n) == SubSeq(s, 1, n)

\* rustdct is outside the repository.  Its length-8 transforms are computed
\* here from their definitions, with cos(pi*m/16) held to 24 bits, the
\* precision of an f32: Cos24Table[m + 1] = round(2^24 * cos(pi*m/16))
Cos24Table == <<16777216, 16454846, 15500126, 13949745, 11863283, 9320922,
                6420363, 3273072, 0>>

\* 2^24 * cos(pi*m/16) for m in 0..31: cos(pi - x) = -cos(x) = cos(pi + x)
Cos24Turn ==
    Stored([m1 \in 1..32 |->
              LET f == IF m1 - 1 > 16 THEN 32 - (m1 - 1) ELSE m1 - 1
              IN  IF f > 8 THEN -Cos24Table[(16 - f) + 1] ELSE Cos24Table[f + 1]], 32)

\* 2^24 * cos(pi*m/16) for every m >= 0
Cos24(m) == Cos24Turn[(m % 32) + 1]

\* 64 * x * cos(pi*m/16): the product in two 12-bit limbs, six guard bits kept
MulCos(x, m) ==
    LET c == Cos24(m)
        hi == AbsInt(c) \div 4096
        lo == AbsInt(c) % 4096
        mag == (AbsInt(x) * hi + (AbsInt(x) * lo) \div 4096) \div 64
    IN  IF (x < 0) = (c < 0) THEN mag ELSE -mag

\* dct.process_dct2(row), dct.rs:96 and 109: the unnormalized DCT-II,
\* out[k] = sum over n of row[n] * cos(pi * k * (2n + 1) / 16)
process_dct2(row) ==
    Stored([k \in 1..BLK_WIDTH |->
              RoundDiv(SeqSum(Stored([n \in 1..BLK_WIDTH |->
                                         MulCos(row[n], (2 * (n - 1) + 1) * (k - 1))],
                                     BLK_WIDTH)), 64)], BLK_WIDTH)

\* idct.process_dct3(row), dct.rs:132 and 145: the unnormalized DCT-III,
\* out[k] = row[0] / 2 + sum over n >= 1 of row[n] * cos(pi * n * (2k + 1) / 16)
process_dct3(row) ==
    Stored([k \in 1..BLK_WIDTH |->
              RoundDiv(SeqSum(Stored([n \in 1..BLK_WIDTH |->
                                         IF n = 1 THEN 32 * row[1]
                                         ELSE MulCos(row[n], (n - 1) * (2 * (k - 1) + 1))],
                                     BLK_WIDTH)), 64)], BLK_WIDTH)

\* block.chunks_mut(BLK_WIDTH) with the transform applied to every chunk
RowsPass(block, T(_)) ==
    LET rows == Stored([r \in 1..BLK_WIDTH |->
                           T(SubSeq(block, BLK_WIDTH * (r - 1) + 1, BLK_WIDTH * r))],
                       BLK_WIDTH)
    IN  Stored([p \in 1..(BLK_WIDTH * BLK_WIDTH) |->
                  rows[((p - 1) \div BLK_WIDTH) + 1][((p - 1) % BLK_WIDTH) + 1]],
               BLK_WIDTH * BLK_WIDTH)

\* dct.rs:100-105 (and 113-117 back): out[i * 8 + j] = block[j * 8 + i]
Transpose(block) ==
    Stored([p \in 1..(BLK_WIDTH * BLK_WIDTH) |->
              block[((p - 1) % BLK_WIDTH) * BLK_WIDTH + ((p - 1) \div BLK_WIDTH) + 1]],
           BLK_WIDTH * BLK_WIDTH)

\* a faulty variant of Normalize: the coefficient is 4 / BLK_WIDTH
NormalizeByWidth(v) == RoundDiv(4 * v, BLK_WIDTH)

\* dct.rs:150-153: v * coeff, with coeff = 4 / (BLK_WIDTH * BLK_WIDTH)
Normalize(v) == RoundDiv(4 * v, BLK_WIDTH * BLK_WIDTH)

\* dct.rs:93-118, one block
Dct2dBlock(block) ==
    Transpose(RowsPass(Transpose(RowsPass(block, process_dct2)), process_dct2))

\* dct.rs:129-156, one block
Idct2dBlock(block) ==
    LET back == Transpose(RowsPass(Transpose(RowsPass(block, process_dct3)), process_dct3))
    IN  Stored([p \in 1..(BLK_WIDTH * BLK_WIDTH) |-> Normalize(back[p])],
               BLK_WIDTH * BLK_WIDTH)

\* dct.rs:89-119
apply_2d_dct(blocks) == [b \in 1..Len(blocks) |-> Dct2dBlock(blocks[b])]

\* dct.rs:125-157
apply_2d_idct(blocks) == [b \in 1..Len(blocks) |-> Idct2dBlock(blocks[b])]

\* a faulty variant of StepBy: only the origins a whole block fits at
StepByWhole(n) == {v \in 0..(n - 1) : v % BLK_WIDTH = 0 /\ v + BLK_WIDTH <= n}

\* (0..n).step_by(BLK_WIDTH), dct.rs:51-52
StepBy(n) == {v \in 0..(n - 1) : v % BLK_WIDTH = 0}

\* a faulty variant of split_into_blocks: a block is read column by column
split_into_blocks_by_column(plane, width, height) ==
    LET nx == Cardinality(StepBy(width))
        ny == Cardinality(StepBy(height))
        At(b, p) == (BLK_WIDTH * ((b - 1) \div nx) + ((p - 1) % BLK_WIDTH)) * width
                    + BLK_WIDTH * ((b - 1) % nx) + ((p - 1) \div BLK_WIDTH)
        inside == \A b \in 1..(nx * ny), p \in 1..(BLK_WIDTH * BLK_WIDTH) :
                      At(b, p) < Len(plane)
    IN  [ok |-> inside,
         blocks |-> IF inside
                       THEN [b \in 1..(nx * ny) |->
                               [p \in 1..(BLK_WIDTH * BLK_WIDTH) |-> F32(plane[At(b, p) + 1])]]
                       ELSE <<>>]

\* dct.rs:48-66: [ok, blocks].  Block b (0-based) has its origin at column
\* BLK_WIDTH * (b mod nx), row BLK_WIDTH * (b div nx), nx the number of
\* origins in a row; reading plane[..] past the end of the plane panics.
split_into_blocks(plane, width, height) ==
    LET nx == Cardinality(StepBy(width))
        ny == Cardinality(StepBy(height))
        At(b, p) == (BLK_WIDTH * ((b - 1) \div nx) + ((p - 1) \div BLK_WIDTH)) * width
                    + BLK_WIDTH * ((b - 1) % nx) + ((p - 1) % BLK_WIDTH)
        inside == \A b \in 1..(nx * ny), p \in 1..(BLK_WIDTH * BLK_WIDTH) :
                      At(b, p) < Len(plane)
    IN  [ok |-> inside,
         blocks |-> IF inside
                       THEN [b \in 1..(nx * ny) |->
                               [p \in 1..(BLK_WIDTH * BLK_WIDTH) |-> F32(plane[At(b, p) + 1])]]
                       ELSE <<>>]

\* dct.rs:69-84: [ok, plane].  width / BLK_WIDTH = 0 panics on the modulo, a
\* block shorter than 64 or a write past the end of the plane panics too;
\* where two writes hit the same sample the later one stays.
merge_into_plane(blocks, width, height) ==
    LET nx == width \div BLK_WIDTH
        X(b) == ((b - 1) % nx) * BLK_WIDTH
        Y(b) == ((b - 1) \div nx) * BLK_WIDTH
        At(b, j, i) == (Y(b) + j) * width + (X(b) + i)
        ok == /\ (Len(blocks) > 0 => nx > 0)
              /\ \A b \in 1..Len(blocks) :
                    /\ Len(blocks[b]) >= BLK_WIDTH * BLK_WIDTH
                    /\ \A j, i \in 0..(BLK_WIDTH - 1) : At(b, j, i) < width * height
        Writers(q) == {w \in (1..Len(blocks)) \X (0..(BLK_WIDTH - 1)) :
                          LET i == q - (Y(w[1]) + w[2]) * width - X(w[1])
                          IN  i >= 0 /\ i < BLK_WIDTH}
        Last(q) == CHOOSE w \in Writers(q) :
                       \A v \in Writers(q) :
                           v[1] < w[1] \/ (v[1] = w[1] /\ v[2] <= w[2])
    IN  [ok |-> ok,
         plane |-> IF ok
                      THEN [q1 \in 1..(width * height) |->
                              LET q == q1 - 1
                              IN  IF Writers(q) = {} THEN 0
                                  ELSE LET w == Last(q)
                                           i == q - (Y(w[1]) + w[2]) * width - X(w[1])
                                       IN  AsU8(blocks[w[1]][w[2] * BLK_WIDTH + i + 1])]
                      ELSE <<>>]

-----------------------------------------------------------------------------
(* the transform of a plane and back: lib.rs:130-158 *)

MaxSamplePattern == 24

\* the samples of a plane: all 255, a 0/255 checkerboard, then mixed values
SampleAt(p, i) ==
    IF p = 0 THEN 255
    ELSE IF p = 1 THEN (IF (i + (i \div BLK_WIDTH)) % 2 = 0 THEN 0 ELSE 255)
    ELSE (p * 37 + i * i * (p + 1) + 11 * i * p) % 256

PlaneOf(p, width, height) == [q \in 1..(width * height) |-> SampleAt(p, q - 1)]

DctInit ==
    /\ pc = "dct_start"
    /\ \E p \in 0..MaxSamplePattern, nx \in 1..2 :
          /\ host = [width |-> nx * BLK_WIDTH, height |-> BLK_WIDTH, pattern |-> p]
          /\ y_plane = PlaneOf(p, nx * BLK_WIDTH, BLK_WIDTH)
    /\ wm = None
    /\ y_blocks = <<>>
    /\ orig_blocks = <<>>
    /\ wm_bits = <<>>
    /\ key = 0
    /\ step_size = F32(100)
    /\ dithers = <<>>
    /\ n_embedded = 0
    /\ extracted_wm = <<>>
    /\ image_out = None
    /\ rounded = None
    /\ dither_log = <<>>
    /\ embedded_blocks = {}

\* lib.rs:136
DctSplit ==
    /\ pc = "dct_start"
    /\ LET r == split_into_blocks(y_plane, host.width, host.height)
       IN  /\ y_blocks' = r.blocks
           /\ orig_blocks' = r.blocks
           /\ pc' = IF r.ok THEN "dct_split" ELSE "panicked"
    /\ UNCHANGED <<host, wm, y_plane, wm_bits, key, step_size, dithers, n_embedded,
                   extracted_wm, image_out, rounded, dither_log,
                   embedded_blocks>>

\* lib.rs:138
DctForward ==
    /\ pc = "dct_split"
    /\ y_blocks' = apply_2d_dct(y_blocks)
    /\ pc' = "dct_forward"
    /\ UNCHANGED <<host, wm, y_plane, orig_blocks, wm_bits, key, step_size, dithers,
                   n_embedded, extracted_wm, image_out, rounded, dither_log,
                   embedded_blocks>>

\* lib.rs:148
DctInverse ==
    /\ pc = "dct_forward"
    /\ y_blocks' = apply_2d_idct(y_blocks)
    /\ pc' = "dct_inverse"
    /\ UNCHANGED <<host, wm, y_plane, orig_blocks, wm_bits, key, step_size, dithers,
                   n_embedded, extracted_wm, image_out, rounded, dither_log,
                   embedded_blocks>>

DctNext == DctSplit \/ DctForward \/ DctInverse

SpecDct == DctInit /\ [][DctNext]_vars

-----------------------------------------------------------------------------
(* lib.rs: embed_watermark *)

\* lib.rs:23 fixes the host at 512 x 512, 64 blocks a side, and lib.rs:42
\* the watermark at 128 x 128, a quarter of the host's side.  The model
\* keeps both relations and the power of two, with 2^LogBlocks blocks a
\* side (the program: LogBlocks = 6).
LogBlocks == 1

HostSide == BLK_WIDTH * (2 ^ LogBlocks)

WmSide == HostSide \div 4

\* the <<width, height>> a host image and a watermark image are tried with
HostDims == {<<HostSide, HostSide>>, <<HostSide - BLK_WIDTH, HostSide>>,
             <<HostSide, HostSide + 1>>, <<HostSide - BLK_WIDTH, HostSide - BLK_WIDTH>>}

WmDims == {<<WmSide, WmSide>>, <<WmSide - 1, WmSide>>, <<WmSide, 2 * WmSide>>,
           <<WmSide \div 2, WmSide \div 2>>}

\* the key of lib.rs:183 and the smallest and largest step of lib.rs:272
EmbedKeys == {123456}

EmbedSteps == {F32(10), F32(100)}

MaxHostPattern == 1

\* lib.rs:22-29
HostDimsOk(image) == image.width = HostSide /\ image.height = HostSide

\* a faulty variant of WmDimsOk: only the width is checked
WmDimsOkWidthOnly(image) == image.width = WmSide

\* lib.rs:42
WmDimsOk(image) == image.width = WmSide /\ image.height = WmSide

\* a faulty variant of Chunk: the chunks are handed out in the order the
\* embed steps run, whatever block a step works on
ChunkInTurn(bits, i) ==
    SubSeq(bits, 12 * Cardinality(embedded_blocks) + 1,
           MinInt(12 * Cardinality(embedded_blocks) + 12, Len(bits)))

\* wm_bits.chunks(12): chunk i (0-based), the last one possibly short
Chunk(bits, i) == SubSeq(bits, 12 * i + 1, MinInt(12 * i + 12, Len(bits)))

\* a faulty variant of ChunksLeft: the loop also stops when the blocks run out
ChunksLeftZip(bits, blocks, i) == 12 * i < Len(bits) /\ i < Len(blocks)

\* lib.rs:49: the iterator over the chunks has a chunk i (0-based)
ChunksLeft(bits, blocks, i) == 12 * i < Len(bits)

EmbedInit ==
    /\ pc = "embed_start"
    /\ host = None
    /\ wm = None
    /\ y_plane = <<>>
    /\ y_blocks = <<>>
    /\ orig_blocks = <<>>
    /\ wm_bits = <<>>
    /\ key \in EmbedKeys
    /\ step_size \in EmbedSteps
    /\ dithers = <<>>
    /\ n_embedded = 0
    /\ extracted_wm = <<>>
    /\ image_out = None
    /\ rounded = None
    /\ dither_log = <<>>
    /\ embedded_blocks = {}

\* lib.rs:20-29: the host image is decoded, whatever its size and content,
\* and must be 512 x 512
OpenHost ==
    /\ pc = "embed_start"
    /\ \E d \in HostDims, p \in 0..MaxHostPattern :
          host' = [width |-> d[1], height |-> d[2], pattern |-> p]
    /\ pc' = IF HostDimsOk(host') THEN "host_checked" ELSE "panicked"
    /\ UNCHANGED <<wm, y_plane, y_blocks, orig_blocks, wm_bits, key, step_size,
                   dithers, n_embedded, extracted_wm, image_out, rounded, dither_log,
                   embedded_blocks>>

\* lib.rs:32: the luma plane of the host, one u8 a pixel; the host is given
\* by its luma samples, so the plane is the host's pattern
ConvertHost ==
    /\ pc = "host_checked"
    /\ y_plane' = PlaneOf(host.pattern, host.width, host.height)
    /\ pc' = "converted"
    /\ UNCHANGED <<host, wm, y_blocks, orig_blocks, wm_bits, key, step_size, dithers,
                   n_embedded, extracted_wm, image_out, rounded, dither_log,
                   embedded_blocks>>

\* lib.rs:35
SplitHost ==
    /\ pc = "converted"
    /\ LET r == split_into_blocks(y_plane, host.width, host.height)
       IN  /\ y_blocks' = r.blocks
           /\ orig_blocks' = r.blocks
           /\ pc' = IF r.ok THEN "split" ELSE "panicked"
    /\ UNCHANGED <<host, wm, y_plane, wm_bits, key, step_size, dithers, n_embedded,
                   extracted_wm, image_out, rounded, dither_log,
                   embedded_blocks>>

\* lib.rs:38
TransformHost ==
    /\ pc = "split"
    /\ y_blocks' = apply_2d_dct(y_blocks)
    /\ orig_blocks' = y_blocks'
    /\ pc' = "transformed"
    /\ UNCHANGED <<host, wm, y_plane, wm_bits, key, step_size, dithers, n_embedded,
                   extracted_wm, image_out, rounded, dither_log,
                   embedded_blocks>>

\* lib.rs:40-42: the watermark image is decoded, whatever its size, pixel
\* format and content, and must be 128 x 128
OpenWm ==
    /\ pc = "transformed"
    /\ \E d \in WmDims, c \in Channels, p \in 0..MaxBytePattern :
          wm' = Image(d[1], d[2], c, ImageBytes(d[1] * d[2] * c, p))
    /\ pc' = IF WmDimsOk(wm') THEN "wm_checked" ELSE "panicked"
    /\ UNCHANGED <<host, y_plane, y_blocks, orig_blocks, wm_bits, key, step_size,
                   dithers, n_embedded, extracted_wm, image_out, rounded, dither_log,
                   embedded_blocks>>

\* lib.rs:45
RecodeWm ==
    /\ pc = "wm_checked"
    /\ wm_bits' = recode_to_3bits(wm)
    /\ pc' = "recoded"
    /\ UNCHANGED <<host, wm, y_plane, y_blocks, orig_blocks, key, step_size, dithers,
                   n_embedded, extracted_wm, image_out, rounded, dither_log,
                   embedded_blocks>>

\* lib.rs:48
DitherForEmbed ==
    /\ pc = "recoded"
    /\ dithers' = generate_dither_signal(12, step_size, key)
    /\ dither_log' = LogDither(12, step_size, key, dithers')
    /\ pc' = "embedding"
    /\ UNCHANGED <<host, wm, y_plane, y_blocks, orig_blocks, wm_bits, key, step_size,
                   n_embedded, extracted_wm, image_out, rounded,
                   embedded_blocks>>

\* lib.rs:49-51, one turn of the loop: chunk i goes to y_blocks[i].  The
\* index panics when there is no block i, embed panics on a short chunk.
EmbedChunk ==
    /\ pc = "embedding"
    /\ ChunksLeft(wm_bits, y_blocks, n_embedded)
    /\ LET i == n_embedded
       IN  IF i >= Len(y_blocks)
              THEN /\ pc' = "panicked"
                   /\ UNCHANGED <<y_blocks, n_embedded, embedded_blocks>>
              ELSE LET r == embed_watermark(y_blocks[i + 1], Chunk(wm_bits, i),
                                            dithers, step_size)
                   IN  /\ y_blocks' = [y_blocks EXCEPT ![i + 1] = r.signal]
                       /\ n_embedded' = IF r.ok THEN n_embedded + 1 ELSE n_embedded
                       /\ embedded_blocks' = IF r.ok THEN embedded_blocks \cup {i + 1}
                                                     ELSE embedded_blocks
                       /\ pc' = IF r.ok THEN "embedding" ELSE "panicked"
    /\ UNCHANGED <<host, wm, y_plane, orig_blocks, wm_bits, key, step_size, dithers,
                   extracted_wm, image_out, rounded, dither_log>>

\* lib.rs:54, reached when the chunks are used up
InvertHost ==
    /\ pc = "embedding"
    /\ ~ChunksLeft(wm_bits, y_blocks, n_embedded)
    /\ y_blocks' = apply_2d_idct(y_blocks)
    /\ pc' = "inverted"
    /\ UNCHANGED <<host, wm, y_plane, orig_blocks, wm_bits, key, step_size, dithers,
                   n_embedded, extracted_wm, image_out, rounded, dither_log,
                   embedded_blocks>>

\* lib.rs:57
MergeHost ==
    /\ pc = "inverted"
    /\ LET r == merge_into_plane(y_blocks, host.width, host.height)
       IN  /\ y_plane' = r.plane
           /\ pc' = IF r.ok THEN "merged" ELSE "panicked"
    /\ UNCHANGED <<host, wm, y_blocks, orig_blocks, wm_bits, key, step_size, dithers,
                   n_embedded, extracted_wm, image_out, rounded, dither_log,
                   embedded_blocks>>

\* lib.rs:60-66: the watermarked image is returned; the model keeps its luma
\* plane, the one plane embedding changes (the chroma planes are the host's)
ReturnImage ==
    /\ pc = "merged"
    /\ image_out' = [width |-> host.width, height |-> host.height, y_plane |-> y_plane]
    /\ pc' = "done"
    /\ UNCHANGED <<host, wm, y_plane, y_blocks, orig_blocks, wm_bits, key, step_size,
                   dithers, n_embedded, extracted_wm, rounded, dither_log,
                   embedded_blocks>>

EmbedNext ==
    \/ OpenHost
    \/ ConvertHost
    \/ SplitHost
    \/ TransformHost
    \/ OpenWm
    \/ RecodeWm
    \/ DitherForEmbed
    \/ EmbedChunk
    \/ InvertHost
    \/ MergeHost
    \/ ReturnImage

SpecEmbed == EmbedInit /\ [][EmbedNext]_vars

-----------------------------------------------------------------------------
(* dct.rs: a plane split into blocks and merged back *)

MaxGridPattern == 3

\* the widths and heights a plane is tried with: one and two blocks, and
\* sides that are no multiple of BLK_WIDTH
GridSides == {BLK_WIDTH, 2 * BLK_WIDTH, BLK_WIDTH - 1, BLK_WIDTH + 4, 2 * BLK_WIDTH + 1}

\* by how much the samples of the blocks move between split and merge, as
\* the transforms and the embedding may move them: 0.5, 100.0, 300.0, up at
\* the even positions of a block and down at the odd ones
GridShifts == {F32(1) \div 2, F32(100), F32(300)}

\* the plane convert_to_YCbCr returns has width * height samples
\* (colorspace.rs:15-16)
GridInit ==
    /\ pc = "grid_start"
    /\ \E w \in GridSides, h \in GridSides, p \in 0..MaxGridPattern :
          /\ host = [width |-> w, height |-> h, pattern |-> p]
          /\ y_plane = PlaneOf(p, w, h)
    /\ wm = None
    /\ y_blocks = <<>>
    /\ orig_blocks = <<>>
    /\ wm_bits = <<>>
    /\ key = 0
    /\ step_size = F32(100)
    /\ dithers = <<>>
    /\ n_embedded = 0
    /\ extracted_wm = <<>>
    /\ image_out = None
    /\ rounded = None
    /\ dither_log = <<>>
    /\ embedded_blocks = {}

\* dct.rs:48-66
GridSplit ==
    /\ pc = "grid_start"
    /\ LET r == split_into_blocks(y_plane, host.width, host.height)
       IN  /\ y_blocks' = r.blocks
           /\ orig_blocks' = r.blocks
           /\ pc' = IF r.ok THEN "grid_split" ELSE "panicked"
    /\ UNCHANGED <<host, wm, y_plane, wm_bits, key, step_size, dithers, n_embedded,
                   extracted_wm, image_out, rounded, dither_log,
                   embedded_blocks>>

\* the blocks are f32 and are changed in place between split and merge
\* (lib.rs:38-54)
GridShift ==
    /\ pc = "grid_split"
    /\ \E d \in GridShifts :
          y_blocks' = [b \in 1..Len(y_blocks) |->
                         [p \in 1..(BLK_WIDTH * BLK_WIDTH) |->
                            y_blocks[b][p] + (IF p % 2 = 0 THEN d ELSE -d)]]
    /\ pc' = "grid_shifted"
    /\ UNCHANGED <<host, wm, y_plane, orig_blocks, wm_bits, key, step_size, dithers,
                   n_embedded, extracted_wm, image_out, rounded, dither_log,
                   embedded_blocks>>

\* dct.rs:69-84
GridMerge ==
    /\ pc \in {"grid_split", "grid_shifted"}
    /\ LET r == merge_into_plane(y_blocks, host.width, host.height)
       IN  /\ image_out' = [width |-> host.width, height |-> host.height,
                            y_plane |-> r.plane]
           /\ pc' = IF r.ok THEN "grid_merged" ELSE "panicked"
    /\ UNCHANGED <<host, wm, y_plane, y_blocks, orig_blocks, wm_bits, key, step_size,
                   dithers, n_embedded, extracted_wm, rounded, dither_log,
                   embedded_blocks>>

GridNext == GridSplit \/ GridShift \/ GridMerge

SpecGrid == GridInit /\ [][GridNext]_vars

-----------------------------------------------------------------------------
(* lib.rs:47-51: the per-block embed steps, run in any order *)

\* how many blocks the embed steps are run over
MaxBlocks == 3

\* lib.rs:49-51 as written: chunk i goes to block i, i = 0, 1, ...
RECURSIVE EmbedLoop(_, _, _, _, _)
EmbedLoop(blocks, bits, dither_signal, step, i) ==
    IF ~ChunksLeft(bits, blocks, i) \/ i >= Len(blocks) THEN blocks
    ELSE EmbedLoop([blocks EXCEPT ![i + 1] =
                       embed_watermark(blocks[i + 1], Chunk(bits, i), dither_signal, step).signal],
                   bits, dither_signal, step, i + 1)

\* the payload bit stream: the groups of the numbers of GroupNumbers, one
\* after the other, from the n-th on
StreamOf(n, blocks) ==
    LET numbers == <<0, 4095, 1365, 2730, 819, 2017>>
    IN  [q \in 1..(12 * blocks) |->
           BitsOf(numbers[((n + (q - 1) \div 12) % Len(numbers)) + 1], 12)[((q - 1) % 12) + 1]]

AnyOrderInit ==
    /\ pc = "order_start"
    /\ host = None
    /\ wm = None
    /\ y_plane = <<>>
    /\ \E p \in 0..MaxBlockPattern :
          /\ y_blocks = [b \in 1..MaxBlocks |-> BlockOf((p + b) % (MaxBlockPattern + 1))]
          /\ orig_blocks = y_blocks
    /\ \E n \in 0..MaxKey : wm_bits = StreamOf(n, MaxBlocks)
    /\ key \in Keys
    /\ step_size \in Steps
    /\ dithers = <<>>
    /\ n_embedded = 0
    /\ extracted_wm = <<>>
    /\ image_out = None
    /\ rounded = None
    /\ dither_log = <<>>
    /\ embedded_blocks = {}

\* lib.rs:48: the dither sequence is generated once, before any embed step
AnyOrderDither ==
    /\ pc = "order_start"
    /\ dithers' = generate_dither_signal(12, step_size, key)
    /\ dither_log' = LogDither(12, step_size, key, dithers')
    /\ pc' = "order_embedding"
    /\ UNCHANGED <<host, wm, y_plane, y_blocks, orig_blocks, wm_bits, key, step_size,
                   n_embedded, extracted_wm, image_out, rounded, embedded_blocks>>

\* lib.rs:50: the embed step of one block, any block it has not run on
\* yet, with the chunk of that block's index
AnyOrderEmbed ==
    /\ pc = "order_embedding"
    /\ \E b \in (1..Len(y_blocks)) \ embedded_blocks :
          LET r == embed_watermark(y_blocks[b], Chunk(wm_bits, b - 1), dithers, step_size)
          IN  /\ y_blocks' = [y_blocks EXCEPT ![b] = r.signal]
              /\ n_embedded' = IF r.ok THEN n_embedded + 1 ELSE n_embedded
              /\ embedded_blocks' = embedded_blocks \cup {b}
              /\ pc' = IF ~r.ok THEN "panicked"
                        ELSE IF embedded_blocks' = 1..Len(y_blocks) THEN "order_done"
                        ELSE "order_embedding"
    /\ UNCHANGED <<host, wm, y_plane, orig_blocks, wm_bits, key, step_size, dithers,
                   extracted_wm, image_out, rounded, dither_log>>

AnyOrderNext == AnyOrderDither \/ AnyOrderEmbed

SpecAnyOrder == AnyOrderInit /\ [][AnyOrderNext]_vars

-----------------------------------------------------------------------------
(* properties *)

\* C1: QIM round trip without distortion.  For every block, every group of
\* 12 bits, every dither sequence the generator produces and every step
\* >= 10.0, extract right after embed returns the 12 embedded bits in order.
C1_RoundTrip ==
    (pc = "qim_extracted" /\ Len(wm_bits) = 12 /\ step_size >= F32(10))
        => extracted_wm = wm_bits

\* C2: QIM noise tolerance.  When every mask coefficient of an embedded
\* block has moved by less than step/10, up or down, extract still returns
\* the embedded bit for every slot.
C2_NoiseTolerance ==
    (pc = "qim_extracted_noisy" /\ Len(wm_bits) = 12)
        => \A k \in 1..12 : extracted_wm[k] = wm_bits[k]

\* C4: quantize(value, step) is the multiple of step nearest to value, for
\* negative values too (a possibly negative multiple), and the upper of the
\* two multiples when value lies halfway between them.
C4_NearestMultiple ==
    rounded # None =>
        /\ rounded.out % rounded.step = 0
        /\ 2 * AbsInt(rounded.out - rounded.num) <= rounded.step
        /\ (2 * AbsInt(rounded.out - rounded.num) = rounded.step
               => rounded.out > rounded.num)

\* C5: QIM embed on one block takes exactly 12 bits: with a group of any
\* other length, shorter or longer, it fails, so no embed call returns.
C5_ExactlyTwelveBits ==
    Len(wm_bits) # 12 => (n_embedded = 0 /\ pc # "qim_embedded")

\* C6: imageFromBits(bits, width, height) is rejected whenever len(bits) is
\* not width*height*3: it returns an image only for exactly that many bits.
C6_LengthChecked ==
    pc = "rgb_done" => Len(wm_bits) = image_out.width * image_out.height * 3

\* the byte-wise binarization of a pixel buffer
Binarize(bytes) == [i \in 1..Len(bytes) |-> IF bytes[i] >= 128 THEN 255 ELSE 0]

\* C7, any channel count: for every image whose byte count is divisible by 3,
\* whatever its channel count, imageFromBits(bitsFromImage(img), width(img),
\* height(img)) returns a pixel buffer equal to the binarization of img's.
C7_RoundTripAnyChannels ==
    (pc \in {"round_trip_done", "round_trip_panicked"} /\ Len(wm.bytes) % 3 = 0)
        => (pc = "round_trip_done" /\ image_out.bytes = Binarize(wm.bytes))

\* C7, RGB images: for every image of 3 bytes per pixel (8-bit RGB),
\* imageFromBits(bitsFromImage(img), width(img), height(img)) returns a
\* pixel buffer equal, byte for byte, to the binarization of img's.
C7_RoundTripRgb8 ==
    (pc \in {"round_trip_done", "round_trip_panicked"} /\ wm.channels = 3)
        => (pc = "round_trip_done" /\ image_out.bytes = Binarize(wm.bytes))

\* an RGB image of more than one pixel, with bytes either side of the
\* threshold, has gone through the round trip
C7_Witness ==
    /\ pc = "round_trip_done"
    /\ wm.channels = 3
    /\ wm.width * wm.height > 1
    /\ \E i, j \in 1..Len(wm.bytes) : wm.bytes[i] = 127 /\ wm.bytes[j] = 128
    /\ \E i, j \in 1..Len(image_out.bytes) : image_out.bytes[i] = 0 /\ image_out.bytes[j] = 255

C9_DctRoundTrip ==
    pc = "dct_inverse" =>
        \A b \in 1..Len(y_blocks) : \A p \in 1..(BLK_WIDTH * BLK_WIDTH) :
            2 * AbsInt(y_blocks[b][p] - orig_blocks[b][p]) < Scale

\* two blocks of mixed samples have gone through both transforms
C9_Witness ==
    /\ pc = "dct_inverse"
    /\ Len(y_blocks) = 2
    /\ Cardinality({orig_blocks[1][p] : p \in 1..(BLK_WIDTH * BLK_WIDTH)}) > 8
    /\ orig_blocks[1] # orig_blocks[2]

\* the number of blocks of the host and the length of the payload bit stream
BlockCount == (host.width \div BLK_WIDTH) * (host.height \div BLK_WIDTH)

PayloadLength == Len(wm.bytes)

C10_DimensionsChecked ==
    (\/ (host # None /\ <<host.width, host.height>> # <<HostSide, HostSide>>)
     \/ (wm # None /\ <<wm.width, wm.height>> # <<WmSide, WmSide>>)) =>
        /\ pc = "panicked"
        /\ image_out = None
        /\ n_embedded = 0
        /\ wm_bits = <<>>
        /\ dithers = <<>>
        /\ y_blocks = orig_blocks

\* a host of the right size was split and transformed, then the watermark
\* was found to have the wrong size and the call panicked
C10_Witness ==
    /\ pc = "panicked"
    /\ host # None /\ HostDimsOk(host)
    /\ wm # None /\ wm.width = WmSide /\ wm.height # WmSide
    /\ Len(y_blocks) = BlockCount
    /\ n_embedded = 0

\* C11: split requires width % 8 = 0 and height % 8 = 0.  For every plane
\* whose width or height is no multiple of 8 the call fails and returns no
\* blocks, so no block with samples of a neighbouring row or from outside
\* the plane is ever returned.
C11_SplitNeedsMultiplesOf8 ==
    (pc # "grid_start" /\ (host.width % 8 # 0 \/ host.height % 8 # 0)) =>
        /\ pc = "panicked"
        /\ y_blocks = <<>>
        /\ image_out = None

\* a plane as wide as a block and a half, two blocks high, made split fail
C11_Witness ==
    /\ pc = "panicked"
    /\ host.width = BLK_WIDTH + 4
    /\ host.height = 2 * BLK_WIDTH
    /\ Len(y_plane) = host.width * host.height
    /\ y_blocks = <<>>

\* the sample of block k (0-based) at row j, column i of the block lies at
\* this index (0-based) of a plane of the given width
PlaneIndex(k, j, i, width) ==
    (8 * (k \div (width \div 8)) + j) * width + 8 * (k % (width \div 8)) + i

\* C13: merge stores every block sample clamped to [0,255]: a sample below
\* 0 as 0, a sample above 255 as 255, a sample inside the range as its
\* integer part; never as its value modulo 256.
C13_MergeClamps ==
    pc = "grid_merged" =>
        \A b \in 1..Len(y_blocks) : \A j, i \in 0..7 :
            LET v == y_blocks[b][8 * j + i + 1]
                out == image_out.y_plane[PlaneIndex(b - 1, j, i, host.width) + 1]
            IN  /\ v < 0 => out = 0
                /\ v > F32(255) => out = 255
                /\ (v >= 0 /\ v <= F32(255)) =>
                       (F32(out) <= v /\ v < F32(out + 1))

\* two blocks with samples below 0, above 255 and inside the range have
\* been merged
C13_Witness ==
    /\ pc = "grid_merged"
    /\ Len(y_blocks) = 2
    /\ \E p, q, r \in 1..64 :
          /\ y_blocks[1][p] > F32(255)
          /\ y_blocks[1][q] < 0
          /\ y_blocks[2][r] > 0 /\ y_blocks[2][r] < F32(255)
    /\ \E q \in 1..Len(image_out.y_plane) : image_out.y_plane[q] \notin {0, 255}

\* C14: split/merge round trip.  For every plane of 8-bit samples whose
\* width and height are multiples of 8, merge(split(plane, W, H), W, H) is
\* the plane, sample for sample: block k goes back to the origin
\* x = 8 * (k mod (W/8)), y = 8 * (k div (W/8)) split read it from.
C14_SplitMergeRoundTrip ==
    (pc = "grid_merged" /\ y_blocks = orig_blocks) =>
        /\ image_out.y_plane = y_plane
        /\ \A b \in 1..Len(y_blocks) : \A j, i \in 0..7 :
              y_blocks[b][8 * j + i + 1]
                  = F32(y_plane[PlaneIndex(b - 1, j, i, host.width) + 1])

\* a plane of two by two blocks of mixed samples went through split and
\* merge
C14_Witness ==
    /\ pc = "grid_merged"
    /\ y_blocks = orig_blocks
    /\ Len(y_blocks) = 4
    /\ Cardinality({y_plane[q] : q \in 1..Len(y_plane)}) > 8
    /\ image_out.y_plane = y_plane

\* the multiple of step nearest to value, the upper one on a tie
NearestMultiple(value, step) ==
    LET r == value % step
    IN  IF 2 * r >= step THEN value - r + step ELSE value - r

\* the mask indices in ascending order
MaskIndices == <<4, 5, 6, 7, 11, 12, 13, 14, 15, 18, 19, 20>>

\* C12: extract decision rule.  For every 64-element block extract returns
\* exactly 12 bits, and bit k is 0 exactly when the probe
\* block[idx] + dithers[k].lo, idx the k-th mask index, is less than step/10
\* away from quantize(probe, step), the multiple of step nearest to it.
C12_ExtractDecisionRule ==
    pc \in {"qim_probed", "qim_extracted", "qim_extracted_noisy"} =>
        /\ Len(extracted_wm) = 12
        /\ \A k \in 1..12 :
              LET probe == y_blocks[1][MaskIndices[k] + 1] + dithers[k][1]
              IN  extracted_wm[k] =
                      ~(10 * AbsInt(NearestMultiple(probe, step_size) - probe) < step_size)

\* C15: embed frame.  One QIM embed, on block i of the pipeline, changes
\* only the 12 coefficients of that block at the mask indices: its other 52
\* coefficients, every other block, the bit stream and the dither sequence
\* stay as they were, and the coefficient at the k-th mask index is set
\* from its old value, bit k of the group and dither pair k alone.
C15_EmbedFrame ==
    [][(EmbedChunk /\ n_embedded < Len(y_blocks)) =>
         LET b == n_embedded + 1
             Index(k) == MaskIndices[k] + 1
         IN  /\ wm_bits' = wm_bits
             /\ dithers' = dithers
             /\ Len(y_blocks') = Len(y_blocks)
             /\ \A c \in 1..Len(y_blocks) : c # b => y_blocks'[c] = y_blocks[c]
             /\ Len(y_blocks'[b]) = 64
             /\ \A p \in 1..64 :
                   (\A k \in 1..12 : p # Index(k)) => y_blocks'[b][p] = y_blocks[b][p]
             /\ \A k \in 1..12 :
                   12 * n_embedded + k <= Len(wm_bits) =>
                       LET d == IF wm_bits[12 * n_embedded + k]
                                   THEN dithers[k][2] ELSE dithers[k][1]
                       IN  y_blocks'[b][Index(k)]
                               = round_to_step_size(y_blocks[b][Index(k)] + d, step_size) - d
      ]_vars

\* two blocks have had their groups embedded and differ from what they
\* were, the blocks after them are still untouched
C15_Witness ==
    /\ pc = "embedding"
    /\ n_embedded = 2
    /\ Len(y_blocks) > 2
    /\ y_blocks[1] # orig_blocks[1]
    /\ y_blocks[2] # orig_blocks[2]
    /\ \A c \in 3..Len(y_blocks) : y_blocks[c] = orig_blocks[c]
    /\ \E k \in 1..24 : wm_bits[k]
    /\ \E k \in 1..24 : ~wm_bits[k]

\* C16: per-block independence.  Whatever the order in which the embed
\* steps run over the blocks, group i going to block i and the dither
\* sequence generated once, the blocks that result are those of the
\* sequential loop; on the way, every block a step has run on already has
\* its final value, every other block its first, and the dither sequence
\* stays as generated.
C16_OrderIndependence ==
    pc \in {"order_embedding", "order_done"} =>
        LET sequential == EmbedLoop(orig_blocks, wm_bits, dither_log[1].out, step_size, 0)
        IN  /\ dithers = dither_log[1].out
            /\ Len(dither_log) = 1
            /\ \A b \in 1..Len(y_blocks) :
                  y_blocks[b] = IF b \in embedded_blocks THEN sequential[b]
                                                           ELSE orig_blocks[b]
            /\ (pc = "order_done" => y_blocks = sequential)

\* the steps have run on the last block and on no other yet, and on all
\* blocks
C16_Witness ==
    /\ pc = "order_embedding"
    /\ embedded_blocks = {MaxBlocks}
    /\ y_blocks[MaxBlocks] # orig_blocks[MaxBlocks]
    /\ y_blocks[1] = orig_blocks[1]
    /\ \E k \in 1..12 : wm_bits[k] # wm_bits[12 * (MaxBlocks - 1) + k]

=============================================================================
